---- MODULE Spec2Model ----
(***************************************************************************)
(* The Voronoi tessellation engine of voronoi-golang (src/voronoi.go) as a *)
(* state machine: NewVoronoi, Init, Tessellate and ToPixels, called by the  *)
(* presentation layer (main.go, game.go).                                  *)
(*                                                                         *)
(*   Spec        one seeding: NewVoronoi, the Init of NewGame, then any    *)
(*               sequence of Tessellate and ToPixels calls.                *)
(*   SpecReseed  the same plus the Init of Game.Update (Space), callable   *)
(*               in every state after the first Init.                      *)
(*   SpecSingle  SpecReseed with exactly one seed, on grids up to          *)
(*               SingleW x SingleH.                                        *)
(*   SpecTies    Spec with up to TieSeeds seeds, on grids of at most       *)
(*               TieCells cells.                                           *)
(*   SpecGame    the presentation loop: NewGame, then Update frames with   *)
(*               any keys and Draw, on grids up to GameW x GameH.          *)
(*   SpecNear    one seeding with up to NearSeeds seeds, the first in the  *)
(*               corner (0,0), on grids up to NearW x NearH, tessellated   *)
(*               in one call (hideIterations).                             *)
(***************************************************************************)
EXTENDS Integers, Sequences, FiniteSets, TLC

VARIABLES
    engine,          \* "nil": no engine (not built, or NewVoronoi failed); "ok"
    args,            \* the arguments [w, h, n] NewVoronoi was called with
    err,             \* the error value returned by the last call ("nil" = no error)
    width, height, numSeeds,
    seeds,           \* v.seeds: sequence of Points
    activeSeeds,     \* v.activeSeeds: sequence of Points
    diagram,         \* v.diagram[x][y]: NilPoint or a Point
    radius,          \* v.radius
    distances,       \* v.distances[i][j]
    panicked,        \* a run-time panic (index out of range) ended the process
    pixels,          \* the buffer returned by the last call, <<>> unless it was ToPixels
    lastOp,          \* the operation that acted last
    hideIterations,  \* the argument of the last Tessellate call
    rings,           \* loop iterations begun by the last Tessellate call
    lookups,         \* the index pairs <<i, j>> of v.distances[i][j] read by the last Tessellate call
    ringLog,         \* the rings of the last Tessellate call, each with its claim attempts
    prevRadius,      \* v.radius when the last operation was called
    gameRunning,     \* g.gameRunning (FALSE before NewGame)
    keys,            \* the keys just pressed in the last Update: [enter, space]
    calls            \* the engine methods the last Update called, in order

vars == <<engine, args, err, width, height, numSeeds, seeds, activeSeeds, diagram,
          radius, distances, panicked, pixels, lastOp, hideIterations, rings,
          lookups, ringLog, prevRadius, gameRunning, keys, calls>>

gameVars == <<gameRunning, keys, calls>>

engineVars == <<width, height, numSeeds, seeds, activeSeeds, diagram, radius, distances>>

----------------------------------------------------------------------------
\* Bounds of the model.
MaxW == 4
MaxH == 4
MaxCells == 12
MaxSeeds == 2
\* Bounds of the reseeding specification.
ReW == 3
ReH == 3
ReSeeds == 1
\* Bounds of the single-seed specification (the 4x4 scenario).
SingleW == 4
SingleH == 4
\* Bounds of the specification with three seeds.
TieW == 3
TieH == 2
TieCells == 6
TieSeeds == 3
\* Bounds of the specification of the presentation loop.
GameW == 2
GameH == 1
GameSeeds == 1
\* Bounds of the specification of completed tessellations.
NearW == 4
NearH == 4
NearCells == 16
NearSeeds == 3

----------------------------------------------------------------------------
\* With(v, F) is F(v), with v evaluated once.
With(v, F(_)) == CHOOSE r \in {F(x) : x \in {v}} : TRUE

\* model.go: a nil *int, a nil *Color, a nil *Point.
NilDistance == -1
NilColor == <<>>
NilPoint == [X |-> -1, Y |-> -1, Distance |-> NilDistance, Color |-> NilColor]

NoError == "nil"
ErrTooManySeeds == "Number of seeds cannot be more than the pixels in the canvas"

\* The colour drawn for the i-th seed: four bytes <<R, G, B, A>>.
SeedColor(i) == <<(37 * i) % 256, (91 * i) % 256, (173 * i) % 256, (256 - i) % 256>>

\* What the random source can yield for the seed list: one position per seed.
SeedDraws(w, h, n) == [1..n -> (0..(w - 1)) \X (0..(h - 1))]

\* The draws that put the first seed in the corner (0,0).
CornerDraws(w, h, n) ==
    {[k \in 1..n |-> IF k = 1 THEN <<0, 0>> ELSE rest[k]] :
         rest \in [2..n -> (0..(w - 1)) \X (0..(h - 1))]}

----------------------------------------------------------------------------
\* Mutant: the validation is off by one.
TooManySeedsOffByOne(w, h, n) == n >= w * h

\* NewVoronoi's validation.
TooManySeeds(w, h, n) == n > w * h

\* Mutant: the table holds the sums of the offsets, not of their squares.
InitDistancesManhattan(w, h) == [i \in 0..(2 * w) |-> [j \in 0..(2 * h) |-> i + j]]

\* initDistances: the table, indexed 0..2*width and 0..2*height.
InitDistances(w, h) == [i \in 0..(2 * w) |-> [j \in 0..(2 * h) |-> i * i + j * j]]

\* Mutant: the columns are allocated once and kept on later calls.
InitDiagramKept(w, h) ==
    IF lastOp = "NewVoronoi"
    THEN [i \in 0..(w - 1) |-> [j \in 0..(h - 1) |-> NilPoint]]
    ELSE diagram

\* initDiagram: every cell nil.
InitDiagram(w, h) == [i \in 0..(w - 1) |-> [j \in 0..(h - 1) |-> NilPoint]]

\* The seed built by one iteration of initSeeds.
NewSeed(x, y, i) == [X |-> x, Y |-> y, Distance |-> 0, Color |-> SeedColor(i)]

\* initSeeds: append each seed and store it in the diagram (a later seed at
\* the same position replaces an earlier one there).
\* Mutant: the seed is appended to the list but not stored in the diagram.
StoreSeedSkipped(dg, seed) == dg

\* v.diagram[seed.X][seed.Y] = &seed
StoreSeed(dg, seed) == [dg EXCEPT ![seed.X][seed.Y] = seed]

RECURSIVE InitSeeds(_, _, _, _)
InitSeeds(draw, i, sds, dg) ==
    IF i > Len(draw) THEN [seeds |-> sds, diagram |-> dg]
    ELSE LET seed == NewSeed(draw[i][1], draw[i][2], i)
         IN InitSeeds(draw, i + 1, Append(sds, seed), StoreSeed(dg, seed))

----------------------------------------------------------------------------
\* Mutant: the cell is replaced by an empty Point whatever it holds.
PointFromDiagramAlwaysFresh(dg, x, y) ==
    LET dg1 == [dg EXCEPT ![x][y] = [X |-> x, Y |-> y, Distance |-> NilDistance, Color |-> NilColor]]
    IN [diagram |-> dg1, p |-> dg1[x][y]]

\* pointFromDiagram: fills a nil cell with an empty Point, returns a copy.
PointFromDiagram(dg, x, y) ==
    LET dg1 == IF dg[x][y] = NilPoint
               THEN [dg EXCEPT ![x][y] = [X |-> x, Y |-> y, Distance |-> NilDistance, Color |-> NilColor]]
               ELSE dg
    IN [diagram |-> dg1, p |-> dg1[x][y]]

\* Mutant: the comparison is inverted.
CloserOwnerInverted(p, distance) == p.Distance # NilDistance /\ p.Distance > distance

\* Mutant: an equal stored distance rejects too.
CloserOrEqualOwner(p, distance) == p.Distance # NilDistance /\ p.Distance <= distance

\* The rejection test of assignPointToSeed on the fetched point.
CloserOwner(p, distance) == p.Distance # NilDistance /\ p.Distance < distance

\* Mutant: the right and bottom edges are off by one.
OutOfCanvasOffByOne(seed, dx, dy) ==
    \/ seed.X + dx < 0
    \/ seed.X + dx >= width - 1
    \/ seed.Y + dy < 0
    \/ seed.Y + dy >= height - 1

\* The bounds test of assignPointToSeed.
OutOfCanvas(seed, dx, dy) ==
    \/ seed.X + dx < 0
    \/ seed.X + dx >= width
    \/ seed.Y + dy < 0
    \/ seed.Y + dy >= height

\* Mutant: the point is written before the stored distance is tested.
AssignFetchedWritesFirst(f, seed, distance) ==
    [diagram |-> [f.diagram EXCEPT ![f.p.X][f.p.Y] =
                      [f.p EXCEPT !.Color = seed.Color, !.Distance = distance]],
     ok |-> ~CloserOwner(f.p, distance)]

\* assignPointToSeed after the bounds test: f is what pointFromDiagram gave.
AssignFetched(f, seed, distance) ==
    IF CloserOwner(f.p, distance)
    THEN [diagram |-> f.diagram, ok |-> FALSE]
    ELSE [diagram |-> [f.diagram EXCEPT ![f.p.X][f.p.Y] =
                           [f.p EXCEPT !.Color = seed.Color, !.Distance = distance]],
          ok |-> TRUE]

\* assignPointToSeed: one claim attempt; the diagram after it and its result.
AssignPointToSeed(dg, seed, distance, dx, dy) ==
    IF OutOfCanvas(seed, dx, dy)
    THEN [diagram |-> dg, ok |-> FALSE]
    ELSE AssignFetched(PointFromDiagram(dg, seed.X + dx, seed.Y + dy), seed, distance)

\* Mutant: the last reflection repeats the seventh.
ReflectionsOneMissing(dx, dy) ==
    << <<dx, dy>>, <<dx, -dy>>, <<dy, dx>>, <<dy, -dx>>,
       <<-dx, dy>>, <<-dx, -dy>>, <<-dy, dx>>, <<-dy, dx>> >>

\* The eight offsets assignPointsToSeed tries, in its order.
Reflections(dx, dy) ==
    << <<dx, dy>>, <<dx, -dy>>, <<dy, dx>>, <<dy, -dx>>,
       <<-dx, dy>>, <<-dx, -dy>>, <<-dy, dx>>, <<-dy, -dx>> >>

\* Mutant: the result of the last attempt replaces the flag.
OrStillActiveDropped(ok, stillActive) == ok

\* stillActive = <attempt> || stillActive
OrStillActive(ok, stillActive) == ok \/ stillActive

\* One call assignPointToSeed(seed, distance, off) as the log records it: dg is
\* the diagram before the call, a what the call gave.
Claim(dg, a, seed, distance, off) ==
    LET x == seed.X + off[1]
        y == seed.Y + off[2]
        inCanvas == x \in DOMAIN dg /\ y \in DOMAIN dg[x]
    IN [seed |-> seed, dx |-> off[1], dy |-> off[2], distance |-> distance,
        x |-> x, y |-> y, inCanvas |-> inCanvas,
        before |-> IF inCanvas THEN dg[x][y] ELSE NilPoint,
        after |-> IF inCanvas THEN a.diagram[x][y] ELSE NilPoint,
        ok |-> a.ok,
        unchanged |-> (a.diagram = dg)]

\* stillActive = v.assignPointToSeed(...) || stillActive, for offs[k], offs[k+1], ...
RECURSIVE AssignEach(_, _, _, _, _, _, _)
AssignEach(dg, seed, distance, offs, k, stillActive, claims) ==
    IF k > Len(offs) THEN [diagram |-> dg, ok |-> stillActive, claims |-> claims]
    ELSE With(AssignPointToSeed(dg, seed, distance, offs[k][1], offs[k][2]),
              LAMBDA a : AssignEach(a.diagram, seed, distance, offs, k + 1,
                                    OrStillActive(a.ok, stillActive),
                                    Append(claims, Claim(dg, a, seed, distance, offs[k]))))

\* assignPointsToSeed: the eight claim attempts of one ring point.
AssignPointsToSeed(dg, seed, distance, dx, dy, claims) ==
    AssignEach(dg, seed, distance, Reflections(dx, dy), 1, FALSE, claims)

\* Mutant: the walk stops before the diagonal (dy > dx).
RECURSIVE WalkStrict(_, _, _)
WalkStrict(dx, dy, combinations) ==
    IF dy > dx
    THEN WalkStrict(dx + 1, dy - 1, Append(combinations, [X |-> dx, Y |-> dy]))
    ELSE combinations

\* The ring walk of getProximityDistances for radius r (already incremented).
RECURSIVE Walk(_, _, _)
Walk(dx, dy, combinations) ==
    IF dy >= dx
    THEN Walk(dx + 1, dy - 1, Append(combinations, [X |-> dx, Y |-> dy]))
    ELSE combinations

GetProximityDistances(r) == Walk(0, r, <<>>)

\* Mutant: the radius grows by two.
NextRadiusSkips(r) == r + 2

\* v.radius++ in getProximityDistances.
NextRadius(r) == r + 1

\* v.distances[i][j] is readable.
InRange(i, j) == i \in DOMAIN distances /\ j \in DOMAIN distances[i]

\* Tessellate, the loop over proximityDistances for one seed.
\* st = [diagram, stillActive, panicked, lookups, claims]
RECURSIVE SeedLoop(_, _, _, _)
SeedLoop(st, seed, prox, k) ==
    IF k > Len(prox) THEN st
    ELSE IF ~InRange(prox[k].X, prox[k].Y)
    THEN [st EXCEPT !.panicked = TRUE, !.lookups = @ \cup {<<prox[k].X, prox[k].Y>>}]
    ELSE With(AssignPointsToSeed(st.diagram, seed, distances[prox[k].X][prox[k].Y],
                                 prox[k].X, prox[k].Y, st.claims),
              LAMBDA a :
                  With([diagram |-> a.diagram,
                        stillActive |-> OrStillActive(a.ok, st.stillActive),
                        panicked |-> FALSE,
                        lookups |-> st.lookups \cup {<<prox[k].X, prox[k].Y>>},
                        claims |-> a.claims],
                       LAMBDA st1 : SeedLoop(st1, seed, prox, k + 1)))

\* if stillActive { stillActiveSeeds = append(stillActiveSeeds, seed) }
KeepIfActive(still, seed, stillActive) ==
    IF stillActive THEN Append(still, seed) ELSE still

\* Tessellate, the loop over v.activeSeeds of one ring.
\* st = [diagram, stillActiveSeeds, panicked, lookups, claims]
RECURSIVE ActiveLoop(_, _, _, _)
ActiveLoop(st, active, prox, k) ==
    IF k > Len(active) THEN st
    ELSE With(SeedLoop([diagram |-> st.diagram, stillActive |-> FALSE,
                        panicked |-> FALSE, lookups |-> st.lookups,
                        claims |-> st.claims],
                       active[k], prox, 1),
              LAMBDA s :
                  IF s.panicked
                  THEN [st EXCEPT !.diagram = s.diagram, !.panicked = TRUE,
                                  !.lookups = s.lookups, !.claims = s.claims]
                  ELSE With([diagram |-> s.diagram,
                             stillActiveSeeds |-> KeepIfActive(st.stillActiveSeeds,
                                                               active[k], s.stillActive),
                             panicked |-> FALSE,
                             lookups |-> s.lookups,
                             claims |-> s.claims],
                            LAMBDA st1 : ActiveLoop(st1, active, prox, k + 1)))

\* Mutant: the ring ranges over v.seeds.
RingSeedsAll(active) == seeds

\* for _, seed := range v.activeSeeds
RingSeeds(active) == active

\* One iteration of Tessellate's outer loop: the ring of radius r.
Ring(e, r) ==
    With(GetProximityDistances(r),
         LAMBDA prox :
             ActiveLoop([diagram |-> e.diagram, stillActiveSeeds |-> <<>>,
                         panicked |-> FALSE, lookups |-> e.lookups, claims |-> <<>>],
                        RingSeeds(e.activeSeeds), prox, 1))

\* What the log keeps of that iteration: the engine at its start, the claim
\* attempts in the order made, the seeds kept and the diagram at its end.
RingEntry(e, r, ring) ==
    [radius |-> r, active |-> e.activeSeeds, diagram |-> e.diagram,
     claims |-> ring.claims, kept |-> ring.stillActiveSeeds,
     result |-> ring.diagram, panicked |-> ring.panicked]

\* The engine after that iteration.
\* e = [diagram, radius, activeSeeds, panicked, rings, lookups, ringLog]
AfterRing(e, r, ring) ==
    [diagram |-> ring.diagram,
     radius |-> r,
     activeSeeds |-> IF ring.panicked THEN e.activeSeeds ELSE ring.stillActiveSeeds,
     panicked |-> ring.panicked,
     rings |-> e.rings + 1,
     lookups |-> ring.lookups,
     ringLog |-> Append(e.ringLog, RingEntry(e, r, ring))]

\* Tessellate, the outer loop: for len(v.activeSeeds) > 0 { ...; if !hide { break } }
RECURSIVE TessellateLoop(_, _)
\* Mutant: the break is taken when hideIterations is set (if hideIterations { break }).
TessellateLoopBreakInverted(e, hide) ==
    IF Len(e.activeSeeds) = 0 THEN e
    ELSE With(NextRadius(e.radius),
              LAMBDA r :
                  With(Ring(e, r),
                       LAMBDA ring :
                           With(AfterRing(e, r, ring),
                                LAMBDA e1 : IF e1.panicked \/ hide
                                            THEN e1
                                            ELSE TessellateLoop(e1, hide))))

\* Mutant: the loop condition is tested after the body (do ... while).
TessellateLoopDoWhile(e, hide) ==
    With(NextRadius(e.radius),
         LAMBDA r :
             With(Ring(e, r),
                  LAMBDA ring :
                      With(AfterRing(e, r, ring),
                           LAMBDA e1 : IF e1.panicked \/ ~hide \/ Len(e1.activeSeeds) = 0
                                       THEN e1
                                       ELSE TessellateLoop(e1, hide))))

TessellateLoop(e, hide) ==
    IF Len(e.activeSeeds) = 0 THEN e
    ELSE With(NextRadius(e.radius),
              LAMBDA r :
                  With(Ring(e, r),
                       LAMBDA ring :
                           With(AfterRing(e, r, ring),
                                LAMBDA e1 : IF e1.panicked \/ ~hide
                                            THEN e1
                                            ELSE TessellateLoop(e1, hide))))

\* Mutant: the kept seeds are collected in place, over the array v.seeds shares
\* with v.activeSeeds (stillActiveSeeds := v.activeSeeds[:0]).
SeedsFilteredInPlace(sds, active) ==
    [k \in 1..Len(sds) |-> IF k <= Len(active) THEN active[k] ELSE sds[k]]

\* v.seeds after Tessellate: stillActiveSeeds is a fresh slice, so the array
\* behind v.seeds (shared with v.activeSeeds by initTessellation) is not written.
SeedsAfterTessellate(sds, active) == sds

----------------------------------------------------------------------------
\* ToPixels.
CellBytes(p) == IF p # NilPoint /\ p.Color # NilColor THEN p.Color ELSE <<0, 0, 0, 0>>

SetPixel(px, pos, c) ==
    [px EXCEPT ![pos] = c[1], ![pos + 1] = c[2], ![pos + 2] = c[3], ![pos + 3] = c[4]]

\* Mutant: the cell is fetched with pointFromDiagram, which fills a nil cell.
ReadCellFilling(dg, x, y) == PointFromDiagram(dg, x, y)

\* ToPixels reads v.diagram[i][j] directly: the diagram is not written.
ReadCell(dg, x, y) == [diagram |-> dg, p |-> dg[x][y]]

\* The loop over the cells; st = [pixels, diagram]
RECURSIVE PaintCells(_, _, _)
PaintCells(st, i, j) ==
    IF i >= width THEN st
    ELSE IF j >= height THEN PaintCells(st, i + 1, 0)
    ELSE With(ReadCell(st.diagram, i, j),
              LAMBDA f :
                  With([pixels |-> SetPixel(st.pixels, (j * width + i) * 4, CellBytes(f.p)),
                        diagram |-> f.diagram],
                       LAMBDA st1 : PaintCells(st1, i, j + 1)))

\* Mutant: the seeds are not marked.
PaintSeedsSkipped(px, k) == px

\* The loop over the seeds: each seed position is painted (0,0,0,0).
RECURSIVE PaintSeeds(_, _)
PaintSeeds(px, k) ==
    IF k > Len(seeds) THEN px
    ELSE PaintSeeds(SetPixel(px, (seeds[k].Y * width + seeds[k].X) * 4, <<0, 0, 0, 0>>), k + 1)

\* ToPixels: the buffer returned and the diagram it leaves.
ToPixelsRun ==
    With(PaintCells([pixels |-> [pos \in 0..(width * height * 4 - 1) |-> 0],
                     diagram |-> diagram], 0, 0),
         LAMBDA st : [pixels |-> PaintSeeds(st.pixels, 1), diagram |-> st.diagram])

ToPixelsBuffer == ToPixelsRun.pixels

----------------------------------------------------------------------------
Init ==
    /\ engine = "nil"
    /\ args = [w |-> 0, h |-> 0, n |-> 0]
    /\ err = NoError
    /\ width = 0 /\ height = 0 /\ numSeeds = 0
    /\ seeds = <<>> /\ activeSeeds = <<>>
    /\ diagram = <<>> /\ distances = <<>>
    /\ radius = 0
    /\ panicked = FALSE
    /\ pixels = <<>>
    /\ lastOp = "none"
    /\ hideIterations = FALSE
    /\ rings = 0
    /\ lookups = {}
    /\ ringLog = <<>>
    /\ prevRadius = 0
    /\ gameRunning = FALSE
    /\ keys = [enter |-> FALSE, space |-> FALSE]
    /\ calls = <<>>

\* NewVoronoi(w, h, n), called once by main.
NewVoronoi(w, h, n) ==
    /\ lastOp = "none"
    /\ lastOp' = "NewVoronoi"
    /\ args' = [w |-> w, h |-> h, n |-> n]
    /\ IF TooManySeeds(w, h, n)
       THEN /\ engine' = "nil"
            /\ err' = ErrTooManySeeds
            /\ UNCHANGED engineVars
       ELSE /\ engine' = "ok"
            /\ err' = NoError
            /\ width' = w /\ height' = h /\ numSeeds' = n
            /\ distances' = [i \in 0..(2 * w) |-> <<>>]
            /\ diagram' = [i \in 0..(w - 1) |-> <<>>]
            /\ seeds' = <<>> /\ activeSeeds' = <<>>
            /\ radius' = 0
    /\ UNCHANGED <<panicked, pixels, hideIterations, rings, lookups, ringLog, prevRadius>>
    /\ UNCHANGED gameVars

\* Voronoi.Init: initDistances, initDiagram, initSeeds, initTessellation, the
\* random source yielding one of draws.
VoronoiInitFrom(draws) ==
    /\ engine = "ok" /\ ~panicked
    /\ \E draw \in draws :
          \E s \in {InitSeeds(draw, 1, <<>>, InitDiagram(width, height))} :
             /\ distances' = InitDistances(width, height)
             /\ diagram' = s.diagram
             /\ seeds' = s.seeds
             /\ radius' = 0
             /\ activeSeeds' = s.seeds
    /\ lastOp' = "Init"
    /\ prevRadius' = radius
    /\ pixels' = <<>> /\ hideIterations' = FALSE /\ rings' = 0 /\ lookups' = {}
    /\ ringLog' = <<>>
    /\ UNCHANGED <<engine, args, err, width, height, numSeeds, panicked>>

VoronoiInit == VoronoiInitFrom(SeedDraws(width, height, numSeeds))

\* NewGame: voronoi.Init() right after construction, gameRunning: true.
NewGame(draws) ==
    /\ lastOp = "NewVoronoi"
    /\ VoronoiInitFrom(draws)
    /\ gameRunning' = TRUE
    /\ UNCHANGED <<keys, calls>>

FirstInit == NewGame(SeedDraws(width, height, numSeeds))

\* The same, the first seed drawn in the corner.
FirstInitCorner == NewGame(CornerDraws(width, height, numSeeds))

\* Game.Update: voronoi.Init() when Space was pressed.
Reseed == lastOp # "NewVoronoi" /\ VoronoiInit /\ UNCHANGED gameVars

\* Voronoi.Tessellate(hide)
Tessellate(hide) ==
    /\ engine = "ok" /\ ~panicked
    /\ lastOp # "NewVoronoi"
    /\ \E e \in {TessellateLoop([diagram |-> diagram, radius |-> radius,
                                  activeSeeds |-> activeSeeds, panicked |-> FALSE,
                                  rings |-> 0, lookups |-> {}, ringLog |-> <<>>],
                                 hide)} :
          /\ diagram' = e.diagram
          /\ radius' = e.radius
          /\ activeSeeds' = e.activeSeeds
          /\ seeds' = SeedsAfterTessellate(seeds, e.activeSeeds)
          /\ panicked' = e.panicked
          /\ rings' = e.rings
          /\ lookups' = e.lookups
          /\ ringLog' = e.ringLog
    /\ err' = NoError
    /\ lastOp' = "Tessellate"
    /\ hideIterations' = hide
    /\ prevRadius' = radius
    /\ pixels' = <<>>
    /\ UNCHANGED <<engine, args, width, height, numSeeds, distances>>
    /\ UNCHANGED gameVars

\* Voronoi.ToPixels
ToPixels ==
    /\ engine = "ok" /\ ~panicked
    /\ lastOp # "NewVoronoi"
    /\ \E t \in {ToPixelsRun} :
          /\ pixels' = t.pixels
          /\ diagram' = t.diagram
    /\ lastOp' = "ToPixels"
    /\ prevRadius' = radius
    /\ hideIterations' = FALSE /\ rings' = 0 /\ lookups' = {}
    /\ ringLog' = <<>>
    /\ UNCHANGED <<engine, args, err, panicked>>
    /\ UNCHANGED <<width, height, numSeeds, seeds, activeSeeds, radius, distances>>
    /\ UNCHANGED gameVars

\* if IsKeyJustPressed(KeyEnter) { g.gameRunning = !g.gameRunning }
RunningAfterKeys(running, enter) == IF enter THEN ~running ELSE running

\* Mutant: the flag is tested as it was before the keys were handled.
ShouldTessellateStale(before, after) == before

\* if g.gameRunning { return g.voronoi.Tessellate(...) }, after the key handling.
ShouldTessellate(before, after) == after

\* The engine as the Init of this frame leaves it (space), or as it is.
\* e = [diagram, radius, activeSeeds, seeds, distances]
EngineAfterSpace(space, draw) ==
    IF space
    THEN With(InitSeeds(draw, 1, <<>>, InitDiagram(width, height)),
              LAMBDA s : [diagram |-> s.diagram, radius |-> 0, activeSeeds |-> s.seeds,
                          seeds |-> s.seeds, distances |-> InitDistances(width, height)])
    ELSE [diagram |-> diagram, radius |-> radius, activeSeeds |-> activeSeeds,
          seeds |-> seeds, distances |-> distances]

\* The engine after the Tessellate call of this frame (tess), or as it was.
EngineAfterTessellate(tess, e0, hide) ==
    With([diagram |-> e0.diagram, radius |-> e0.radius, activeSeeds |-> e0.activeSeeds,
          panicked |-> FALSE, rings |-> 0, lookups |-> {}, ringLog |-> <<>>],
         LAMBDA e : IF tess THEN TessellateLoop(e, hide) ELSE e)

\* Game.Update / Canvas.Update, one frame: enter and space are the keys just
\* pressed; hide is the argument of Tessellate (true in Game, the canvas'
\* hideIterations in Canvas).
Update(enter, space, hide) ==
    /\ engine = "ok" /\ ~panicked
    /\ lastOp \notin {"none", "NewVoronoi"}
    /\ \E run \in {RunningAfterKeys(gameRunning, enter)} :
       \E draw \in (IF space THEN SeedDraws(width, height, numSeeds) ELSE {<<>>}) :
       \E e0 \in {EngineAfterSpace(space, draw)} :
       \E tess \in {ShouldTessellate(gameRunning, run)} :
       \E e \in {EngineAfterTessellate(tess, e0, hide)} :
          /\ gameRunning' = run
          /\ distances' = e0.distances
          /\ diagram' = e.diagram
          /\ radius' = e.radius
          /\ activeSeeds' = e.activeSeeds
          /\ seeds' = IF tess THEN SeedsAfterTessellate(e0.seeds, e.activeSeeds)
                              ELSE e0.seeds
          /\ panicked' = e.panicked
          /\ rings' = e.rings
          /\ lookups' = e.lookups
          /\ ringLog' = e.ringLog
          /\ calls' = (IF space THEN <<"Init">> ELSE <<>>) \o
                       (IF tess THEN <<"Tessellate">> ELSE <<>>)
          /\ hideIterations' = (tess /\ hide)
    /\ keys' = [enter |-> enter, space |-> space]
    /\ err' = NoError
    /\ lastOp' = "Update"
    /\ prevRadius' = radius
    /\ pixels' = <<>>
    /\ UNCHANGED <<engine, args, width, height, numSeeds>>

Next ==
    \/ \E w \in 1..MaxW, h \in 1..MaxH, n \in 0..MaxSeeds :
          w * h <= MaxCells /\ NewVoronoi(w, h, n)
    \/ FirstInit
    \/ \E hide \in BOOLEAN : Tessellate(hide)
    \/ ToPixels

Spec == Init /\ [][Next]_vars

NextReseed ==
    \/ \E w \in 1..ReW, h \in 1..ReH, n \in 0..ReSeeds : NewVoronoi(w, h, n)
    \/ FirstInit
    \/ Reseed
    \/ \E hide \in BOOLEAN : Tessellate(hide)
    \/ ToPixels

SpecReseed == Init /\ [][NextReseed]_vars

NextSingle ==
    \/ \E w \in 1..SingleW, h \in 1..SingleH : NewVoronoi(w, h, 1)
    \/ FirstInit
    \/ Reseed
    \/ \E hide \in BOOLEAN : Tessellate(hide)
    \/ ToPixels

SpecSingle == Init /\ [][NextSingle]_vars

NextTies ==
    \/ \E w \in 1..TieW, h \in 1..TieH, n \in 0..TieSeeds :
          w * h <= TieCells /\ NewVoronoi(w, h, n)
    \/ FirstInit
    \/ \E hide \in BOOLEAN : Tessellate(hide)
    \/ ToPixels

SpecTies == Init /\ [][NextTies]_vars

NextGame ==
    \/ \E w \in 1..GameW, h \in 1..GameH, n \in 0..GameSeeds : NewVoronoi(w, h, n)
    \/ FirstInit
    \/ \E enter \in BOOLEAN, space \in BOOLEAN, hide \in BOOLEAN : Update(enter, space, hide)
    \/ ToPixels

SpecGame == Init /\ [][NextGame]_vars

NextNear ==
    \/ \E w \in 1..NearW, h \in 1..NearH, n \in 0..NearSeeds :
          w * h <= NearCells /\ NewVoronoi(w, h, n)
    \/ FirstInitCorner
    \/ Tessellate(TRUE)

SpecNear == Init /\ [][NextNear]_vars

----------------------------------------------------------------------------
\* Vocabulary of the properties.
Cells == (0..(width - 1)) \X (0..(height - 1))

Cell(c) == diagram[c[1]][c[2]]

\* A cell is assigned when it has a distance and a colour.
Assigned(p) == p # NilPoint /\ p.Distance # NilDistance /\ p.Color # NilColor

SeedAt(k, c) == seeds[k].X = c[1] /\ seeds[k].Y = c[2]

\* The last Tessellate call, with the given flag, returned.
TessellateReturned(hide) ==
    lastOp = "Tessellate" /\ hideIterations = hide /\ ~panicked

----------------------------------------------------------------------------
\* C1: after Tessellate(true) returns, every cell of the grid is assigned when
\* there is at least one seed, and every cell is unassigned when there is none.
C1_EveryCellAssigned ==
    TessellateReturned(TRUE) =>
        \A c \in Cells : IF numSeeds = 0 THEN ~Assigned(Cell(c)) ELSE Assigned(Cell(c))

\* Tessellate(true) returned on a 4x3 grid with two seeds in different cells,
\* after at least three rings.
C1_Witness ==
    /\ TessellateReturned(TRUE)
    /\ width = 4 /\ height = 3 /\ numSeeds = 2
    /\ ~SeedAt(2, <<seeds[1].X, seeds[1].Y>>)
    /\ rings >= 3

\* C2: Tessellate(true) terminates with the active-seed set empty, after at
\* most (width-1)+(height-1) rings plus the final ring in which every claim fails.
C2_TerminatesWithinDiameter ==
    (lastOp = "Tessellate" /\ hideIterations) =>
        /\ ~panicked
        /\ activeSeeds = <<>>
        /\ radius <= (width - 1) + (height - 1) + 1

\* C3: Tessellate never fails: every lookup distances[i][j] it performs has
\* 0 <= i <= 2*width and 0 <= j <= 2*height.
C3_LookupsInRange ==
    lastOp = "Tessellate" =>
        /\ ~panicked
        /\ \A l \in lookups : /\ 0 <= l[1] /\ l[1] <= 2 * width
                               /\ 0 <= l[2] /\ l[2] <= 2 * height

\* C4: NewVoronoi(w, h, n) returns an error and no engine exactly when
\* n > w*h, and an engine and no error otherwise.
C4_ErrorIffTooManySeeds ==
    lastOp = "NewVoronoi" =>
        IF args.n > args.w * args.h
        THEN engine = "nil" /\ err # NoError
        ELSE engine = "ok" /\ err = NoError

\* NewVoronoi(1, 1, 2) was refused.
C4_Witness ==
    /\ lastOp = "NewVoronoi"
    /\ args = [w |-> 1, h |-> 1, n |-> 2]
    /\ engine = "nil" /\ err = ErrTooManySeeds

\* C5: after Init the seed list holds numSeeds seeds, each inside the grid,
\* and the cell at every seed position is assigned with distance 0.
C5_SeedsPlaced ==
    lastOp = "Init" =>
        /\ Len(seeds) = numSeeds
        /\ \A k \in 1..Len(seeds) :
              /\ 0 <= seeds[k].X /\ seeds[k].X < width
              /\ 0 <= seeds[k].Y /\ seeds[k].Y < height
              /\ Assigned(diagram[seeds[k].X][seeds[k].Y])
              /\ diagram[seeds[k].X][seeds[k].Y].Distance = 0

\* Init placed two seeds on a 3x4 grid.
C5_Witness ==
    /\ lastOp = "Init"
    /\ width = 3 /\ height = 4
    /\ Len(seeds) = 2

\* C6: Init, in any state, replaces the engine state: radius 0, the active
\* set is the new seed list, and a cell is assigned exactly when a new seed
\* lies on it, holding that seed (every other cell is nil).
C6_InitReplacesState ==
    lastOp = "Init" =>
        /\ radius = 0
        /\ activeSeeds = seeds
        /\ Len(seeds) = numSeeds
        /\ distances = [i \in 0..(2 * width) |-> [j \in 0..(2 * height) |-> i * i + j * j]]
        /\ \A c \in Cells :
              IF \E k \in 1..Len(seeds) : SeedAt(k, c)
              THEN \E k \in 1..Len(seeds) : SeedAt(k, c) /\ Cell(c) = seeds[k]
              ELSE Cell(c) = NilPoint

\* Init was called on an engine that had processed at least two rings.
C6_Witness ==
    /\ lastOp = "Init"
    /\ prevRadius >= 2
    /\ numSeeds = 1

\* C7: Tessellate(false) called with a non-empty active set processes exactly
\* one ring and returns: the radius is the radius before plus 1.
C7_OneRingAndReturn ==
    (lastOp = "Tessellate" /\ ~hideIterations /\ rings >= 1) =>
        /\ ~panicked
        /\ rings = 1
        /\ radius = prevRadius + 1

\* C8: once the active-seed set is empty, a Tessellate call changes neither
\* the grid, the radius, the seed list nor the active set, and returns no error.
C8_NoOpWhenDone ==
    [][(activeSeeds = <<>> /\ lastOp' = "Tessellate") =>
           /\ diagram' = diagram
           /\ radius' = radius
           /\ seeds' = seeds
           /\ activeSeeds' = activeSeeds
           /\ err' = NoError
           /\ ~panicked']_vars

\* A Tessellate call that ran no ring, on an engine whose tessellation had
\* completed after at least two rings.
C8_Witness ==
    /\ lastOp = "Tessellate"
    /\ rings = 0
    /\ numSeeds >= 1 /\ radius >= 2
    /\ activeSeeds = <<>>

\* C9: with exactly one seed, after Tessellate(true) returns every cell of the
\* grid is assigned that seed's colour.
C9_SingleSeedOwnsGrid ==
    (TessellateReturned(TRUE) /\ Len(seeds) = 1) =>
        \A c \in Cells : Assigned(Cell(c)) /\ Cell(c).Color = seeds[1].Color

\* The scenario: a 4x4 grid, the seed at (0,0), tessellated in one call.
C9_Witness ==
    /\ TessellateReturned(TRUE)
    /\ width = 4 /\ height = 4
    /\ Len(seeds) = 1 /\ SeedAt(1, <<0, 0>>)
    /\ prevRadius = 0 /\ rings = 7

\* C10: the radius grows by exactly 1 for each ring a Tessellate call
\* processes, ToPixels leaves it alone, and only Init lowers it (to 0).
C10_RadiusCounts ==
    [][/\ (lastOp' = "Tessellate" => radius' = radius + rings')
       /\ (lastOp' = "ToPixels" => radius' = radius)
       /\ (lastOp' = "Init" => radius' = 0)
       /\ (radius' < radius => lastOp' = "Init")]_vars

\* A Tessellate call that processed at least two rings on an engine that had
\* already processed one.
C10_Witness ==
    /\ lastOp = "Tessellate"
    /\ prevRadius >= 1
    /\ rings >= 2
    /\ radius = prevRadius + rings

\* C11: between two Init calls the seed list is immutable: no Tessellate and no
\* ToPixels call changes the number of seeds, a seed's position or its colour.
C11_SeedsImmutable ==
    [][lastOp' \in {"Tessellate", "ToPixels"} => seeds' = seeds]_vars

\* A Tessellate call dropped the first of two seeds and kept the second.
C11_Witness ==
    /\ lastOp = "Tessellate" /\ rings >= 1
    /\ Len(seeds) = 2
    /\ Len(activeSeeds) = 1 /\ activeSeeds[1] = seeds[2]
    /\ seeds[1] # seeds[2]
    /\ seeds[1].Color = SeedColor(1) /\ seeds[2].Color = SeedColor(2)

\* The four bytes of the buffer px at the offset of cell c = <<x, y>>.
BytesAt(px, c) ==
    LET pos == (c[2] * width + c[1]) * 4
    IN <<px[pos], px[pos + 1], px[pos + 2], px[pos + 3]>>

IsSeedPosition(c) == \E k \in 1..Len(seeds) : SeedAt(k, c)

\* C12: ToPixels returns width*height*4 bytes; the 4 bytes at (y*width+x)*4
\* are the colour stored in cell (x,y) when it is assigned and no seed lies on
\* it, and (0,0,0,0) when it is unassigned or a seed lies on it.
C12_BufferLayout ==
    lastOp = "ToPixels" =>
        /\ DOMAIN pixels = 0..(width * height * 4 - 1)
        /\ \A c \in Cells :
              BytesAt(pixels, c) = IF Assigned(Cell(c)) /\ ~IsSeedPosition(c)
                                  THEN Cell(c).Color
                                  ELSE <<0, 0, 0, 0>>

\* ToPixels on a 3x2 grid mid-tessellation: a seed cell, a claimed cell and
\* an unassigned cell are all in the buffer.
C12_Witness ==
    /\ lastOp = "ToPixels"
    /\ width = 3 /\ height = 2 /\ Len(seeds) = 2 /\ seeds[1] # seeds[2]
    /\ \E c \in Cells : Assigned(Cell(c)) /\ ~IsSeedPosition(c)
                          /\ BytesAt(pixels, c) = SeedColor(2)
    /\ \E c \in Cells : ~Assigned(Cell(c))

\* C13: ToPixels only reads the engine: grid, seeds, active-seed set and
\* radius are unchanged by it, in every reachable state, so a second call made
\* right after it returns the same bytes.
C13_ToPixelsReadsOnly ==
    [][lastOp' = "ToPixels" =>
           /\ engineVars' = engineVars
           /\ pixels' = ToPixelsBuffer'
           /\ (lastOp = "ToPixels" => pixels' = pixels)]_vars

\* ToPixels was called mid-tessellation: seeds still active, cells still nil.
C13_Witness ==
    /\ lastOp = "ToPixels"
    /\ radius >= 1 /\ activeSeeds # <<>>
    /\ \E c \in Cells : Cell(c) = NilPoint
    /\ pixels = ToPixelsBuffer

\* The rings of the last Tessellate call and the claim attempts of a ring.
Rings == 1..Len(ringLog)

ClaimsOf(i) == 1..Len(ringLog[i].claims)

\* A successful claim on a cell that was already assigned.
Overwrite(c) == c.ok /\ Assigned(c.before)

\* C14 as stated: a successful claim on an already-assigned cell stores the
\* distance the cell already holds, and the cell was first assigned in the
\* same ring (it was not assigned when the ring began).
C14_OverwriteSameDistanceSameRing ==
    \A i \in Rings : \A k \in ClaimsOf(i) :
        LET c == ringLog[i].claims[k]
        IN Overwrite(c) =>
               /\ c.distance = c.before.Distance
               /\ ~Assigned(ringLog[i].diagram[c.x][c.y])

\* C14 amended: a successful claim on an already-assigned cell never stores a
\* larger distance than the one the cell holds (it stores an equal or a
\* strictly smaller one, in the ring of the first assignment or a later one).
C14_OverwriteNeverFarther ==
    \A i \in Rings : \A k \in ClaimsOf(i) :
        LET c == ringLog[i].claims[k]
        IN Overwrite(c) => c.distance <= c.before.Distance

\* A cell assigned before the ring began is overwritten with a strictly
\* smaller distance by another seed.
C14_Witness ==
    \E i \in Rings : \E k \in ClaimsOf(i) :
        LET c == ringLog[i].claims[k]
        IN /\ Overwrite(c)
           /\ c.distance < c.before.Distance
           /\ Assigned(ringLog[i].diagram[c.x][c.y])
           /\ c.before.Color # c.seed.Color

\* The seed sd made a successful claim in ring i of the log.
ClaimedIn(i, sd) ==
    \E k \in ClaimsOf(i) : ringLog[i].claims[k].seed = sd /\ ringLog[i].claims[k].ok

\* The active-seed set after ring i of the log.
ActiveAfter(i) == IF i < Len(ringLog) THEN ringLog[i + 1].active ELSE activeSeeds

\* C15: a seed active at the start of a ring is in the active-seed set after
\* the ring exactly when one of its claim attempts in the ring succeeded, and
\* the seeds kept are in the order they had.
C15_KeptIffClaimed ==
    \A i \in Rings :
        ~ringLog[i].panicked =>
            LET Claimed(sd) == ClaimedIn(i, sd)
            IN ActiveAfter(i) = SelectSeq(ringLog[i].active, Claimed)

\* A ring with two active seeds in which the first claimed nothing, although it
\* made attempts inside the grid, and the second claimed a cell.
C15_Witness ==
    \E i \in Rings :
        /\ ~ringLog[i].panicked
        /\ Len(ringLog[i].active) = 2
        /\ ActiveAfter(i) = <<ringLog[i].active[2]>>
        /\ \E k \in ClaimsOf(i) : /\ ringLog[i].claims[k].seed = ringLog[i].active[1]
                                    /\ ringLog[i].claims[k].inCanvas

\* The seeds of a list, as a set.
SeedSet(sds) == {sds[k] : k \in 1..Len(sds)}

\* C16: between two Init calls the active-seed set only shrinks: after every
\* ring it is a subset of what it was before the ring and of the seed list,
\* and a seed that is no longer active makes no claim attempt.
C16_ActiveOnlyShrinks ==
    [][lastOp' \in {"Tessellate", "ToPixels"} =>
           /\ SeedSet(activeSeeds') \subseteq SeedSet(activeSeeds)
           /\ SeedSet(activeSeeds') \subseteq SeedSet(seeds')
           /\ \A i \in 1..Len(ringLog') :
                 /\ SeedSet(ringLog'[i].active) \subseteq
                        (IF i = 1 THEN SeedSet(activeSeeds) ELSE SeedSet(ringLog'[i - 1].kept))
                 /\ SeedSet(ringLog'[i].kept) \subseteq SeedSet(ringLog'[i].active)
                 /\ \A k \in 1..Len(ringLog'[i].claims) :
                       ringLog'[i].claims[k].seed \in SeedSet(ringLog'[i].active)]_vars

\* A Tessellate call ran at least two rings with one seed active and claiming
\* cells, the other seed having been dropped by an earlier call.
C16_Witness ==
    /\ lastOp = "Tessellate" /\ Len(ringLog) >= 2
    /\ Len(seeds) = 2 /\ seeds[1] # seeds[2]
    /\ Len(ringLog[1].active) = 1
    /\ \E c \in Cells : ~Assigned(ringLog[1].diagram[c[1]][c[2]])
    /\ \E k \in ClaimsOf(1) : ringLog[1].claims[k].ok

\* C17: a claim attempt with candidate distance dist on a target inside the
\* grid succeeds exactly when the cell is unassigned or its stored distance is
\* >= dist, and a successful attempt stores the seed's colour and dist.
C17_ClaimSucceedsIffNotCloser ==
    \A i \in Rings : \A k \in ClaimsOf(i) :
        LET c == ringLog[i].claims[k]
        IN c.inCanvas =>
               /\ c.ok <=> (~Assigned(c.before) \/ c.before.Distance >= c.distance)
               /\ c.ok => c.after = [X |-> c.x, Y |-> c.y,
                                      Distance |-> c.distance, Color |-> c.seed.Color]

\* A claim on a cell another seed holds at the same distance succeeded, and a
\* claim on a nil cell succeeded.
C17_Witness ==
    /\ \E i \in Rings : \E k \in ClaimsOf(i) :
          LET c == ringLog[i].claims[k]
          IN /\ c.ok /\ Assigned(c.before)
             /\ c.before.Distance = c.distance
             /\ c.before.Color # c.seed.Color
    /\ \E i \in Rings : \E k \in ClaimsOf(i) :
          ringLog[i].claims[k].ok /\ ringLog[i].claims[k].before = NilPoint

\* The attempt must be rejected: target outside the grid, or a cell holding a
\* strictly smaller distance.
MustReject(c) == ~c.inCanvas \/ (Assigned(c.before) /\ c.before.Distance < c.distance)

\* C18: a rejected claim attempt changes nothing: it reports failure, raises
\* no error and leaves every cell as it was.
C18_RejectedClaimNoEffect ==
    /\ lastOp = "Tessellate" => err = NoError
    /\ \A i \in Rings : \A k \in ClaimsOf(i) :
          LET c == ringLog[i].claims[k]
          IN MustReject(c) => ~c.ok /\ c.unchanged /\ c.after = c.before

\* The log holds an attempt outside the grid and an attempt on a cell, not a
\* seed's own, that holds a strictly smaller distance.
C18_Witness ==
    /\ \E i \in Rings : \E k \in ClaimsOf(i) : ~ringLog[i].claims[k].inCanvas
    /\ \E i \in Rings : \E k \in ClaimsOf(i) :
          LET c == ringLog[i].claims[k]
          IN /\ c.inCanvas /\ MustReject(c) /\ ~c.ok
             /\ c.before.Distance > 0

Abs(n) == IF n < 0 THEN -n ELSE n

\* The integer vectors (a, b) with |a| + |b| = r.
Diamond(r) == {v \in (-r..r) \X (-r..r) : Abs(v[1]) + Abs(v[2]) = r}

\* The octant points (dx, r - dx) with 0 <= dx <= r - dx.
Octant(r) == {[X |-> dx, Y |-> r - dx] : dx \in {d \in 0..r : d <= r - d}}

\* The offsets seed sd attempted in ring i of the log.
OffsetsAttempted(i, sd) ==
    {<<ringLog[i].claims[k].dx, ringLog[i].claims[k].dy>> :
         k \in {j \in ClaimsOf(i) : ringLog[i].claims[j].seed = sd}}

\* C19: for radius r >= 1 the ring walk yields the octant points (dx, r-dx)
\* with 0 <= dx <= r-dx, and the offsets attempted for each seed of the ring are
\* their 8 reflections, which is the set of the vectors (a,b) with
\* |a|+|b| = r: the same set for every seed of the ring.
C19_RingIsDiamond ==
    \A i \in Rings :
        LET r == ringLog[i].radius
            prox == GetProximityDistances(r)
        IN /\ r >= 1
           /\ {prox[k] : k \in 1..Len(prox)} = Octant(r)
           /\ UNION {{Reflections(q.X, q.Y)[n] : n \in 1..8} : q \in Octant(r)} = Diamond(r)
           /\ ~ringLog[i].panicked =>
                  \A sd \in SeedSet(ringLog[i].active) : OffsetsAttempted(i, sd) = Diamond(r)

\* A completed ring of radius 4 with two seeds active at different positions.
C19_Witness ==
    \E i \in Rings :
        /\ ringLog[i].radius = 4 /\ ~ringLog[i].panicked
        /\ Len(ringLog[i].active) = 2
        /\ ringLog[i].active[1].X # ringLog[i].active[2].X

\* Claims k1 < k2 of ring i are a tie: two different seeds, the same target
\* cell inside the grid, the same candidate distance, the earlier one accepted.
Tie(i, k1, k2) ==
    LET c1 == ringLog[i].claims[k1]
        c2 == ringLog[i].claims[k2]
    IN /\ k1 < k2
       /\ c1.seed # c2.seed
       /\ c1.inCanvas /\ c1.x = c2.x /\ c1.y = c2.y
       /\ c1.distance = c2.distance
       /\ c1.ok

\* The later claim of a tie is accepted, and the cell carries its seed's colour
\* at the end of the ring unless a later claim of another seed was accepted.
LaterWins(i, k2) ==
    LET c2 == ringLog[i].claims[k2]
    IN /\ c2.ok
       /\ (\A k3 \in ClaimsOf(i) :
               LET c3 == ringLog[i].claims[k3]
               IN (k3 > k2 /\ c3.x = c2.x /\ c3.y = c2.y /\ c3.ok) => c3.seed = c2.seed)
          => ringLog[i].result[c2.x][c2.y].Color = c2.seed.Color

\* Between the two claims an accepted claim stored a strictly smaller distance
\* in the cell.
CloserBetween(i, k1, k2) ==
    \E k \in ClaimsOf(i) :
        LET c == ringLog[i].claims[k]
        IN /\ k1 < k /\ k < k2
           /\ c.x = ringLog[i].claims[k2].x /\ c.y = ringLog[i].claims[k2].y
           /\ c.ok /\ c.distance < ringLog[i].claims[k2].distance

\* C20 as stated: in every tie the later seed's claim succeeds and its colour
\* is on the cell at the end of the ring, unless a still later seed overwrites it.
C20_TieLastWriteWins ==
    \A i \in Rings : \A k1, k2 \in ClaimsOf(i) :
        Tie(i, k1, k2) => LaterWins(i, k2)

\* C20 amended: the same, for the ties in which no seed processed between the
\* two stored a strictly smaller distance in the cell.
C20_TieLastWriteWinsUnlessCloser ==
    \A i \in Rings : \A k1, k2 \in ClaimsOf(i) :
        (Tie(i, k1, k2) /\ ~CloserBetween(i, k1, k2)) => LaterWins(i, k2)

\* A tie between the first and the third of three active seeds, the second
\* having claimed the cell in between without storing a smaller distance; the
\* cell carries the third seed's colour at the end of the ring.
C20_Witness ==
    \E i \in Rings : \E k1, k2 \in ClaimsOf(i) :
        /\ Tie(i, k1, k2) /\ ~CloserBetween(i, k1, k2)
        /\ Len(ringLog[i].active) = 3
        /\ ringLog[i].claims[k1].seed = ringLog[i].active[1]
        /\ ringLog[i].claims[k2].seed = ringLog[i].active[3]
        /\ \E k \in ClaimsOf(i) :
              /\ k1 < k /\ k < k2 /\ ringLog[i].claims[k].seed = ringLog[i].active[2]
              /\ ringLog[i].claims[k].x = ringLog[i].claims[k2].x
              /\ ringLog[i].claims[k].y = ringLog[i].claims[k2].y
        /\ ringLog[i].result[ringLog[i].claims[k2].x][ringLog[i].claims[k2].y].Color
               = ringLog[i].active[3].Color

\* What one Tessellate(true) call makes of the engine in the current state:
\* grid, radius, active-seed set, and whether the call panicked.
Completion ==
    IF panicked
    THEN [diagram |-> diagram, radius |-> radius, activeSeeds |-> activeSeeds,
          panicked |-> TRUE]
    ELSE With(TessellateLoop([diagram |-> diagram, radius |-> radius,
                              activeSeeds |-> activeSeeds, panicked |-> FALSE,
                              rings |-> 0, lookups |-> {}, ringLog |-> <<>>], TRUE),
              LAMBDA e : [diagram |-> e.diagram, radius |-> e.radius,
                          activeSeeds |-> e.activeSeeds, panicked |-> e.panicked])

\* C21: from the same engine state, one Tessellate(true) call ends in the same
\* grid, radius and (empty) active-seed set as Tessellate(false) called until
\* the active-seed set is empty: a Tessellate(false) step leaves unchanged
\* what Tessellate(true) would make of the engine, a Tessellate(true) step
\* yields just that, and there the active-seed set is empty.
C21_OneCallEqualsSteps ==
    [][lastOp' = "Tessellate" =>
           \E c \in {Completion} :
               /\ ~c.panicked => c.activeSeeds = <<>>
               /\ IF hideIterations'
                  THEN c = [diagram |-> diagram', radius |-> radius',
                            activeSeeds |-> activeSeeds', panicked |-> panicked']
                  ELSE Completion' = c]_vars

\* The last of three or more Tessellate(false) calls emptied the active-seed
\* set of a two-seed engine: the state is what Tessellate(true) makes of it.
C21_Witness ==
    /\ lastOp = "Tessellate" /\ ~hideIterations /\ ~panicked
    /\ rings = 1 /\ radius >= 3
    /\ Len(seeds) = 2 /\ seeds[1].X # seeds[2].X
    /\ activeSeeds = <<>>
    /\ Completion = [diagram |-> diagram, radius |-> radius,
                      activeSeeds |-> <<>>, panicked |-> FALSE]

\* The squared Euclidean distance between cell c and seed sd.
SqDist(c, sd) == (c[1] - sd.X) * (c[1] - sd.X) + (c[2] - sd.Y) * (c[2] - sd.Y)

\* The least squared distance between cell c and a seed.
MinSqDist(c) ==
    CHOOSE d \in {SqDist(c, seeds[k]) : k \in 1..Len(seeds)} :
        \A k \in 1..Len(seeds) : d <= SqDist(c, seeds[k])

\* The tessellation has completed.
Completed ==
    /\ lastOp \in {"Tessellate", "ToPixels"} /\ ~panicked
    /\ Len(seeds) >= 1 /\ activeSeeds = <<>>

\* C22 as stated: when the tessellation has completed, the distance stored in
\* every assigned cell is the least squared distance between the cell and a seed.
C22_NearestSeed ==
    Completed => \A c \in Cells : Assigned(Cell(c)) => Cell(c).Distance = MinSqDist(c)

\* C22 amended: when the tessellation has completed, the distance stored in
\* an assigned cell is never below the least squared distance between the cell
\* and a seed, and equals it when there are at most two seeds.
C22_NearestSeedOfTwo ==
    Completed =>
        \A c \in Cells :
            Assigned(Cell(c)) =>
                /\ Cell(c).Distance >= MinSqDist(c)
                /\ Len(seeds) <= 2 => Cell(c).Distance = MinSqDist(c)

\* A completed tessellation of a 4x4 grid with two seeds, the second neither in
\* the row nor in the column of the first, after at least four rings.
C22_Witness ==
    /\ Completed
    /\ width = 4 /\ height = 4 /\ Len(seeds) = 2
    /\ seeds[2].X >= 1 /\ seeds[2].Y >= 2
    /\ radius >= 4
    /\ \A c \in Cells : Assigned(Cell(c))

\* The last Update called the engine method m.
Called(m) == \E i \in 1..Len(calls) : calls[i] = m

\* C23: in every frame of Update, Enter toggles the running flag and Space
\* calls Init, running or not; Tessellate is called exactly when the flag is
\* true after the key handling, and then it moves the radius on while a seed is
\* active; a frame that ends stopped without Space leaves the grid, the radius
\* and the seeds alone, and one that ends stopped with Space leaves a fresh
\* seeding.
C23_KeysDecideTheFrame ==
    [][lastOp' = "Update" =>
           /\ gameRunning' = (gameRunning # keys'.enter)
           /\ Called("Init")' <=> keys'.space
           /\ Called("Tessellate")' <=> gameRunning'
           /\ (~gameRunning' /\ ~keys'.space) =>
                  /\ diagram' = diagram /\ radius' = radius
                  /\ seeds' = seeds /\ activeSeeds' = activeSeeds
           /\ (~gameRunning' /\ keys'.space) =>
                  /\ radius' = 0 /\ activeSeeds' = seeds'
                  /\ Len(seeds') = numSeeds
                  /\ \A c \in Cells : Assigned(Cell(c))' <=> IsSeedPosition(c)'
           /\ (gameRunning' /\ ~keys'.space /\ activeSeeds # <<>>) => radius' > radius
           /\ (gameRunning' /\ keys'.space /\ numSeeds > 0) => radius' >= 1]_vars

\* A frame in which Enter stopped a running simulation that had advanced and
\* Space reseeded it: Init was the only call, and the new seeding is untouched.
C23_Witness ==
    /\ lastOp = "Update" /\ ~gameRunning
    /\ keys = [enter |-> TRUE, space |-> TRUE]
    /\ calls = <<"Init">>
    /\ prevRadius >= 1 /\ radius = 0
    /\ Len(seeds) = 1 /\ activeSeeds = seeds

\* The seeds that may have written cell c last: those of its colour.
Writers(c) == {k \in 1..Len(seeds) : seeds[k].Color = Cell(c).Color}

\* C24: in every state after Init, an assigned cell holds its own coordinates
\* and the colour of exactly one seed, and its stored distance is the squared
\* Euclidean distance between the cell and that seed.
C24_StoredIsSquaredEuclidean ==
    (engine = "ok" /\ lastOp \notin {"none", "NewVoronoi"}) =>
        \A c \in Cells :
            Assigned(Cell(c)) =>
                /\ Cell(c).X = c[1] /\ Cell(c).Y = c[2]
                /\ Cardinality(Writers(c)) = 1
                /\ \A k \in Writers(c) : Cell(c).Distance = SqDist(c, seeds[k])

\* A cell two columns and one row (or one and two) away from the second seed
\* holds that seed's colour and distance 5, the first seed being farther away.
C24_Witness ==
    /\ lastOp = "Tessellate" /\ ~panicked
    /\ Len(seeds) = 2
    /\ \E c \in Cells :
          /\ Assigned(Cell(c)) /\ Writers(c) = {2}
          /\ Cell(c).Distance = 5
          /\ c[1] # seeds[2].X /\ c[2] # seeds[2].Y
          /\ SqDist(c, seeds[1]) > 5

\* The last-generated seed at position c.
LastSeedAt(c) ==
    CHOOSE k \in 1..Len(seeds) :
        SeedAt(k, c) /\ \A j \in 1..Len(seeds) : SeedAt(j, c) => j <= k

\* C25: in every state reached from Init by Tessellate (and ToPixels) calls,
\* the cell at each seed position holds distance 0 and the colour of the
\* last-generated seed at that position; every claim attempt of the last call
\* carries a distance of at least 1 and none succeeded on a seed position.
C25_SeedCellsKept ==
    (engine = "ok" /\ lastOp \in {"Init", "Tessellate", "ToPixels"}) =>
        /\ \A c \in Cells :
              IsSeedPosition(c) =>
                  /\ Assigned(Cell(c))
                  /\ Cell(c).Distance = 0
                  /\ Cell(c).Color = seeds[LastSeedAt(c)].Color
        /\ \A i \in Rings : \A k \in ClaimsOf(i) :
              LET c == ringLog[i].claims[k]
              IN /\ c.distance >= 1
                 /\ c.ok => ~IsSeedPosition(<<c.x, c.y>>)

\* Two seeds were generated at one position of a grid with other cells, and
\* two or more rings later the cell still holds the second seed's colour at
\* distance 0, every other cell being assigned.
C25_Witness ==
    /\ lastOp = "Tessellate" /\ ~panicked
    /\ radius >= 2 /\ rings >= 1
    /\ Len(seeds) = 2 /\ seeds[1].X = seeds[2].X /\ seeds[1].Y = seeds[2].Y
    /\ Cell(<<seeds[1].X, seeds[1].Y>>).Color = SeedColor(2)
    /\ Cell(<<seeds[1].X, seeds[1].Y>>).Distance = 0
    /\ \E c \in Cells : ~IsSeedPosition(c)
    /\ \A c \in Cells : Assigned(Cell(c))

\* C26: a Tessellate or ToPixels step (any step between two Init calls) leaves
\* every assigned cell assigned, with a stored distance no larger than before.
C26_DistanceNeverGrows ==
    [][lastOp' \in {"Tessellate", "ToPixels"} =>
           \A c \in Cells :
               Assigned(Cell(c)) =>
                   /\ Assigned(Cell(c))'
                   /\ Cell(c)'.Distance <= Cell(c).Distance]_vars

\* A Tessellate call on an engine that had processed a ring lowered the stored
\* distance of a cell assigned before the call and handed it to another seed.
C26_Witness ==
    /\ lastOp = "Tessellate" /\ prevRadius >= 1 /\ Len(ringLog) >= 1
    /\ \E c \in Cells :
          /\ Assigned(ringLog[1].diagram[c[1]][c[2]])
          /\ Assigned(Cell(c))
          /\ Cell(c).Distance < ringLog[1].diagram[c[1]][c[2]].Distance
          /\ Cell(c).Color # ringLog[1].diagram[c[1]][c[2]].Color

====
